---- MODULE Spec2Model ----
(***************************************************************************)
(* Run log retrieval of flotilla-os: the orchestrator (services/logs.go),  *)
(* the ECS CloudWatch logs client and its namespace provisioning.          *)
(*                                                                         *)
(* Go strings that the code measures, splits or concatenates are modelled  *)
(* as sequences of one-character strings; a *string is the empty sequence  *)
(* (nil) or a one-element sequence holding the string it points to.        *)
(***************************************************************************)
EXTENDS Integers, Sequences, FiniteSets, TLC

VARIABLES
    conf,       \* the configuration Initialize reads
    cwl,        \* the ECSCloudWatchLogsClient's fields
    groups,     \* backend: log group name -> retention in days (0: no policy)
    streamUp,   \* backend: the run's log stream has been created by the log driver
    stream,     \* backend: the events of the run's log stream, in ingestion order
    run,        \* state manager: the stored run
    last,       \* the last finished call: its arguments, backend traffic and return values
    cursor,     \* polling caller: the cursor it will pass next
    delivered,  \* polling caller: event index -> times received (capped at 2)
    reset,      \* polling caller: after it received events, a call ended without a position
    pc,         \* provisioner -> its position in createNamespaceIfNotExists
    prov,       \* provisioner -> the requests its running call has issued
    calls,      \* provisioner -> the finished calls: requests issued and error returned
    inv         \* run id -> the frame of the client invocation running for it

vars ==
    <<conf, cwl, groups, streamUp, stream, run, last, cursor, delivered, reset, pc, prov, calls,
      inv>>

(* ------------------------------ bounds --------------------------------- *)
MaxEvents == 3
PageMax == 2
MaxTs == 3
MaxPageLen == 3
NumProvisioners == 2
MaxCalls == 2

(* ------------------------------ strings -------------------------------- *)
Nil == <<>>
Ptr(s) == <<s>>
Deref(p) == p[1]

Min(a, b) == IF a < b THEN a ELSE b

RECURSIVE Join(_, _)
\* strings.Join(messages, sep)
Join(messages, sep) ==
    IF Len(messages) = 0 THEN <<>>
    ELSE IF Len(messages) = 1 THEN messages[1]
    ELSE messages[1] \o sep \o Join(Tail(messages), sep)

RECURSIVE LastSegmentFrom(_, _)
\* the characters of s after its last "/" (s itself when it holds none)
LastSegmentFrom(s, acc) ==
    IF Len(s) = 0 THEN acc
    ELSE IF s[1] = "/" THEN LastSegmentFrom(Tail(s), <<>>)
    ELSE LastSegmentFrom(Tail(s), Append(acc, s[1]))

\* arnSplits := strings.Split(arn, "/"); arnSplits[len(arnSplits)-1]
LastSegment(s) == LastSegmentFrom(s, <<>>)

(* ------------------------------ errors --------------------------------- *)
NoErr == [class |-> "nil", cause |-> "nil"]
MissingResource(err) == [class |-> "MissingResource", cause |-> err.code]
Wrap(err, message) == [class |-> message, cause |-> err.code]
Errorf(message) == [class |-> message, cause |-> "nil"]

RNF == [aws |-> TRUE, code |-> "ResourceNotFoundException"]
Throttling == [aws |-> TRUE, code |-> "ThrottlingException"]
ServiceUnavailable == [aws |-> TRUE, code |-> "ServiceUnavailableException"]
InvalidParameter == [aws |-> TRUE, code |-> "InvalidParameterException"]
AlreadyExists == [aws |-> TRUE, code |-> "ResourceAlreadyExistsException"]
RequestCanceled == [aws |-> FALSE, code |-> "RequestCanceled"]
NoSdkErr == [aws |-> FALSE, code |-> "nil"]

\* the errors the backend may answer any request with, whatever its state
TransientErrors == {Throttling, ServiceUnavailable, RequestCanceled}

\* request.IsErrorThrottle(err)
IsErrorThrottle(err) == err.code \in {"ThrottlingException", "Throttling"}

(* --------------------------- configuration ----------------------------- *)
\* ecs.log.namespace, awslogs-stream-prefix and ecs.log.retention_days of the deployment
ConfNamespace == <<"g">>
ConfStreamPrefix == <<"p">>
ConfRetentionDays == 7

DefaultRetentionDays == 30

\* the settings Initialize reads; awslogsGroup is nil when the driver options hold no such key
DeployedConf ==
    [awslogsRegion |-> <<"r">>, defaultRegion |-> <<>>, namespace |-> ConfNamespace,
     awslogsGroup |-> Nil, streamPrefix |-> ConfStreamPrefix,
     retentionDays |-> ConfRetentionDays, flotillaMode |-> "prod"]

Configs ==
    [awslogsRegion : {<<>>, <<"r">>}, defaultRegion : {<<>>, <<"r">>},
     namespace : {<<>>, ConfNamespace}, awslogsGroup : {Nil, Ptr(<<>>), Ptr(<<"g", "2">>)},
     streamPrefix : {<<>>, ConfStreamPrefix}, retentionDays : {0, ConfRetentionDays},
     flotillaMode : {"test", "prod"}]

\* a client before Initialize; under flotilla_mode "test" its logsClient is put in beforehand
NewClient(c) ==
    [logRetentionInDays |-> 0, logNamespace |-> <<>>, logStreamPrefix |-> <<>>,
     logsClient |-> (c.flotillaMode = "test")]

RegionMissing ==
    Errorf("ECSCloudWatchLogsClient needs one of [ecs.log.driver.options.awslogs-region] or [aws_default_region] set in config")
NamespaceMissing ==
    Errorf("ECSCloudWatchLogsClient needs one of [ecs.log.driver.options.awslogs-group] or [ecs.log.namespace] set in config")
StreamPrefixMissing ==
    Errorf("ECSCloudWatchLogsClient needs [ecs.log.driver.options.awslogs-stream-prefix] set in config")

\* faulty variant: the retention is kept as configured
RetentionAsConfigured(days) == days

\* the retention Initialize keeps
RetentionOrDefault(days) == IF days = 0 THEN DefaultRetentionDays ELSE days

\* Initialize up to its call of createNamespaceIfNotExists: the client's fields as it leaves
\* them, and the error it returns at once (none: it goes on to provision the namespace)
InitializeConfig(c, client) ==
    LET awsRegion == IF Len(c.awslogsRegion) = 0 THEN c.defaultRegion ELSE c.awslogsRegion
        namespace == IF c.awslogsGroup # Nil /\ Len(c.namespace) = 0
                     THEN Deref(c.awslogsGroup) ELSE c.namespace
        c1 == [client EXCEPT !.logNamespace = namespace]
        c2 == [c1 EXCEPT !.logStreamPrefix = c.streamPrefix]
        c3 == [c2 EXCEPT !.logRetentionInDays = RetentionOrDefault(c.retentionDays)]
        c4 == [c3 EXCEPT !.logsClient = IF c.flotillaMode # "test" THEN TRUE ELSE @]
    IN  IF Len(awsRegion) = 0 THEN [cwl |-> client, err |-> RegionMissing]
        ELSE IF Len(c1.logNamespace) = 0 THEN [cwl |-> c1, err |-> NamespaceMissing]
        ELSE IF Len(c2.logStreamPrefix) = 0 THEN [cwl |-> c2, err |-> StreamPrefixMissing]
        ELSE [cwl |-> c4, err |-> NoErr]

\* the client's fields once Initialize has read the deployment's configuration
InitializedClient ==
    [logRetentionInDays |-> ConfRetentionDays,
     logNamespace |-> ConfNamespace,
     logStreamPrefix |-> ConfStreamPrefix,
     logsClient |-> TRUE]

(* --------------------------- runs, executables ------------------------- *)
StatusQueued == "QUEUED"
StatusPending == "PENDING"
StatusRunning == "RUNNING"
StatusStopped == "STOPPED"
Statuses == <<StatusQueued, StatusPending, StatusRunning, StatusStopped>>

ExecutableTypeDefinition == "task_definition"
ExecutableTypeTemplate == "template"
ECSEngine == "ecs"
EKSEngine == "eks"

RunID == "r1"
TaskArn == <<"t", "/", "x">>
\* the definitions and templates the state manager stores, by (type, id)
StoredExecutables ==
    [t \in {ExecutableTypeDefinition, ExecutableTypeTemplate}, id \in {"d1"} |->
        [ContainerName |-> IF t = ExecutableTypeDefinition THEN <<"c">> ELSE <<"k">>]]
\* what a failed lookup hands back with its error: a descriptor with nothing in it
EmptyExecutable == [ContainerName |-> <<>>]

Runs ==
    [RunID : {RunID},
     Status : {Statuses[i] : i \in 1..Len(Statuses)},
     ExecutableType : {Nil, Ptr(ExecutableTypeDefinition), Ptr(ExecutableTypeTemplate)},
     ExecutableID : {Nil, Ptr("d1"), Ptr("d2")},
     DefinitionID : {"d1"},
     Engine : {Ptr(ECSEngine), Ptr(EKSEngine)},
     TaskArn : {TaskArn}]

\* sm.GetExecutableByTypeAndID(t, id): the descriptor and the error
GetExecutableByTypeAndID(t, id) ==
    IF <<t, id>> \in DOMAIN StoredExecutables
    THEN [executable |-> StoredExecutables[t, id], err |-> NoErr]
    ELSE [executable |-> EmptyExecutable, err |-> Errorf("executable not found")]

(* ------------------------------ the client ----------------------------- *)
\* faulty variant: the whole task arn ends the name
toStreamNameWholeArn(executable, r) ==
    cwl.logStreamPrefix \o <<"/">> \o executable.ContainerName \o <<"/">> \o r.TaskArn

\* toStreamName: "<prefix>/<container name>/<last segment of the task arn>"
toStreamName(executable, r) ==
    cwl.logStreamPrefix \o <<"/">> \o executable.ContainerName \o <<"/">> \o LastSegment(r.TaskArn)

\* faulty variant: the request never carries the caller's cursor
GetLogEventsInputFromHead(executable, r, lastSeen) ==
    [LogGroupName |-> cwl.logNamespace,
     LogStreamName |-> toStreamName(executable, r),
     StartFromHead |-> TRUE,
     NextToken |-> Nil]

\* the GetLogEventsInput that Logs builds
GetLogEventsInput(executable, r, lastSeen) ==
    [LogGroupName |-> cwl.logNamespace,
     LogStreamName |-> toStreamName(executable, r),
     StartFromHead |-> TRUE,
     NextToken |-> IF lastSeen # Nil /\ Len(Deref(lastSeen)) > 0 THEN lastSeen ELSE Nil]

\* byTimestamp.Less
byTimestampLess(a, b) == a.Timestamp < b.Timestamp

RECURSIVE InsertSorted(_, _)
\* insertion of e after every element that is not greater than it
InsertSorted(sorted, e) ==
    IF Len(sorted) = 0 THEN <<e>>
    ELSE IF byTimestampLess(e, sorted[Len(sorted)])
         THEN Append(InsertSorted(SubSeq(sorted, 1, Len(sorted) - 1), e), sorted[Len(sorted)])
         ELSE Append(sorted, e)

RECURSIVE SortEvents(_)
\* sort.Sort(byTimestamp(events)): the insertion sort package sort runs on short slices
SortEvents(events) ==
    IF Len(events) = 0 THEN <<>>
    ELSE InsertSorted(SortEvents(SubSeq(events, 1, Len(events) - 1)), events[Len(events)])

\* faulty variant: the messages are joined in delivery order
logsToMessageUnsorted(events) ==
    Join([i \in 1..Len(events) |-> events[i].Message], <<"\n">>)

\* logsToMessage: the messages of the sorted events, joined with newlines
logsToMessage(events) ==
    LET sorted == SortEvents(events)
        messages == [i \in 1..Len(sorted) |-> sorted[i].Message]
    IN  Join(messages, <<"\n">>)

\* faulty variant: a missing stream is reported like any other failure
MissingReturnWrapped(lastSeen, result) ==
    [text |-> <<>>, cursor |-> Nil, err |-> Wrap(result.err, "problem getting logs")]

\* Logs: the stream does not exist
MissingReturn(lastSeen, result) ==
    [text |-> <<>>, cursor |-> Nil, err |-> MissingResource(result.err)]

\* faulty variant: a throttled call drops the caller's cursor
ThrottledReturnNil(lastSeen, result) ==
    [text |-> <<>>, cursor |-> Nil, err |-> NoErr]

\* Logs: the request was throttled
ThrottledReturn(lastSeen, result) ==
    [text |-> <<>>, cursor |-> lastSeen, err |-> NoErr]

\* Logs: any other error
FatalReturn(lastSeen, result) ==
    [text |-> <<>>, cursor |-> Nil, err |-> Wrap(result.err, "problem getting logs")]

\* faulty variant: an empty page hands back the cursor that was passed
EmptyReturnSameCursor(lastSeen, result) ==
    [text |-> <<>>, cursor |-> lastSeen, err |-> NoErr]

\* Logs: a page without events
EmptyReturn(lastSeen, result) ==
    [text |-> <<>>, cursor |-> result.NextForwardToken, err |-> NoErr]

\* faulty variant: a page with events hands back the cursor that was passed
EventsReturnSameCursor(lastSeen, result) ==
    [text |-> logsToMessage(result.Events), cursor |-> lastSeen, err |-> NoErr]

\* Logs: a page with events
EventsReturn(lastSeen, result) ==
    [text |-> logsToMessage(result.Events), cursor |-> result.NextForwardToken, err |-> NoErr]

\* Logs of the client, from the GetLogEvents answer to its return values
ClientLogsReturn(lastSeen, result) ==
    IF result.err # NoSdkErr
    THEN IF result.err.aws /\ result.err.code = RNF.code THEN MissingReturn(lastSeen, result)
         ELSE IF result.err.aws /\ IsErrorThrottle(result.err) THEN ThrottledReturn(lastSeen, result)
         ELSE FatalReturn(lastSeen, result)
    ELSE IF Len(result.Events) = 0 THEN EmptyReturn(lastSeen, result)
    ELSE EventsReturn(lastSeen, result)

\* faulty variant: LogsText does nothing and reports success
ClientLogsTextSilent(executable, r) == [wrote |-> <<>>, err |-> NoErr]

\* LogsText of the client: never writes, always fails
ClientLogsTextReturn(executable, r) ==
    [wrote |-> <<>>, err |-> Errorf("ECSCloudWatchLogsClient does not support LogsText method.")]

(* --------------------------- the log backend --------------------------- *)
\* the name the awslogs driver gives the run's stream: prefix/container/task id
LogDriverStreamName == <<"p", "/", "c", "/", "x">>

\* the continuation token that stands for "after the first n events"
Token(n) == <<"f", n>>
IsToken(s) == Len(s) = 2 /\ s[1] = "f"
TokenPos(s) == s[2]

Perms(n) == {f \in [1..n -> 1..n] : \A i, j \in 1..n : i # j => f[i] # f[j]}

NoOutput == [err |-> NoSdkErr, Events |-> <<>>, NextForwardToken |-> Nil, idx |-> <<>>]
Failure(e) == [NoOutput EXCEPT !.err = e]

\* a page of the stream: n events from position pos, in the delivery order f;
\* idx remembers which events of the stream they are
Page(pos, n, f) ==
    [err |-> NoSdkErr,
     Events |-> [i \in 1..n |-> stream[pos + f[i]]],
     NextForwardToken |-> Ptr(Token(pos + n)),
     idx |-> [i \in 1..n |-> pos + f[i]]]

\* the answers cwl.logsClient.GetLogEvents(args) may give in the current backend state
GetLogEvents(args) ==
    {Failure(e) : e \in TransientErrors} \cup
    (IF args.LogGroupName \notin DOMAIN groups
        \/ ~streamUp \/ args.LogStreamName # LogDriverStreamName
     THEN {Failure(RNF)}
     ELSE IF args.NextToken # Nil /\ ~IsToken(Deref(args.NextToken))
     THEN {Failure(InvalidParameter)}
     ELSE LET pos == IF args.NextToken = Nil THEN 0 ELSE TokenPos(Deref(args.NextToken))
          IN  IF pos > Len(stream) THEN {Failure(InvalidParameter)}
              ELSE UNION {{Page(pos, n, f) : f \in Perms(n)} :
                            n \in 0..Min(PageMax, Len(stream) - pos)})

(* ------------------------ calls and their records ---------------------- *)
\* the record of a call: what it was given, what it asked of its collaborators, what it returned
NoCall ==
    [op |-> "none", runID |-> "", lastSeen |-> Nil, run |-> <<>>, lookup |-> <<>>,
     executable |-> <<>>, lcLogs |-> 0, lcLogsText |-> 0, req |-> <<>>, result |-> NoOutput,
     text |-> <<>>, cursor |-> Nil, err |-> NoErr, wrote |-> <<>>]

\* cwl.Logs(executable, r, lastSeen) when GetLogEvents answers result
ClientLogs(executable, r, lastSeen, result) ==
    LET ret == ClientLogsReturn(lastSeen, result)
    IN  [NoCall EXCEPT !.op = "cwl.Logs", !.lastSeen = lastSeen, !.run = <<r>>,
                       !.executable = <<executable>>, !.lcLogs = 1,
                       !.req = <<GetLogEventsInput(executable, r, lastSeen)>>,
                       !.result = result, !.text = ret.text, !.cursor = ret.cursor,
                       !.err = ret.err]

\* cwl.Logs(executable, r, lastSeen), for each answer the backend may give in its current state
ClientLogsOutcomes(executable, r, lastSeen) ==
    {ClientLogs(executable, r, lastSeen, result) :
        result \in GetLogEvents(GetLogEventsInput(executable, r, lastSeen))}

(* ---------------------------- the orchestrator ------------------------- *)
\* sm.GetRun(runID)
GetRun(runID) ==
    IF runID = run.RunID THEN [run |-> run, err |-> NoErr]
    ELSE [run |-> run, err |-> Errorf("run not found")]

\* faulty variant: the gate lets pending runs through
MayHaveLogsOrPending(r) == r.Status \in {StatusPending, StatusRunning, StatusStopped}

\* the status gate of Logs and LogsText
MayHaveLogs(r) == ~(r.Status # StatusRunning /\ r.Status # StatusStopped)

\* faulty variant: the id is defaulted only when the type was unset too
WithDefaultsTogether(r) ==
    IF r.ExecutableType = Nil
    THEN [r EXCEPT !.ExecutableType = Ptr(ExecutableTypeDefinition),
                   !.ExecutableID = IF @ = Nil THEN Ptr(r.DefinitionID) ELSE @]
    ELSE IF r.ExecutableID = Nil THEN [r EXCEPT !.ExecutableID = Ptr("")] ELSE r

\* the defaulting of the executable type and id
WithDefaults(r) ==
    LET r1 == IF r.ExecutableType = Nil
              THEN [r EXCEPT !.ExecutableType = Ptr(ExecutableTypeDefinition)] ELSE r
    IN  IF r1.ExecutableID = Nil THEN [r1 EXCEPT !.ExecutableID = Ptr(r1.DefinitionID)] ELSE r1

\* faulty variant: the lookup's error ends the call whatever the engine
LogsLookupFailsAnyEngine(err, r) == err # NoErr

\* Logs: whether the lookup's error ends the call
LogsLookupFails(err, r) == err # NoErr /\ Deref(r.Engine) = ECSEngine

\* logService.Logs(runID, lastSeen)
OrchLogsOutcomes(runID, lastSeen) ==
    LET got == GetRun(runID)
        base == [NoCall EXCEPT !.op = "Logs", !.runID = runID, !.lastSeen = lastSeen]
    IN  IF got.err # NoErr THEN {[base EXCEPT !.err = got.err]}
        ELSE IF ~MayHaveLogs(got.run) THEN {[base EXCEPT !.run = <<got.run>>]}
        ELSE LET r == WithDefaults(got.run)
                 look == GetExecutableByTypeAndID(Deref(r.ExecutableType), Deref(r.ExecutableID))
                 here == [base EXCEPT !.run = <<r>>,
                                      !.lookup = <<Deref(r.ExecutableType), Deref(r.ExecutableID)>>]
             IN  IF LogsLookupFails(look.err, r) THEN {[here EXCEPT !.err = look.err]}
                 ELSE {[here EXCEPT !.executable = c.executable, !.lcLogs = 1, !.req = c.req,
                                    !.result = c.result, !.text = c.text, !.cursor = c.cursor,
                                    !.err = c.err]
                       : c \in ClientLogsOutcomes(look.executable, r, lastSeen)}

\* logService.LogsText(runID, w)
OrchLogsTextOutcomes(runID) ==
    LET got == GetRun(runID)
        base == [NoCall EXCEPT !.op = "LogsText", !.runID = runID]
    IN  IF got.err # NoErr THEN {[base EXCEPT !.err = got.err]}
        ELSE IF ~MayHaveLogs(got.run) THEN {[base EXCEPT !.run = <<got.run>>]}
        ELSE LET r == WithDefaults(got.run)
                 look == GetExecutableByTypeAndID(Deref(r.ExecutableType), Deref(r.ExecutableID))
                 here == [base EXCEPT !.run = <<r>>,
                                      !.lookup = <<Deref(r.ExecutableType), Deref(r.ExecutableID)>>]
                 ret == ClientLogsTextReturn(look.executable, r)
             IN  {[here EXCEPT !.executable = <<look.executable>>, !.lcLogsText = 1,
                               !.wrote = ret.wrote, !.err = ret.err]}

(* ------------------- the environment of a log retrieval ---------------- *)
\* the i-th event the log driver ships; timestamps do not follow ingestion order
ShippedEvent(i) ==
    [Timestamp |-> MaxTs - ((i - 1) % MaxTs), Message |-> <<IF i % 2 = 1 THEN "a" ELSE "b">>]

IdleProvisioning ==
    /\ pc = <<>>
    /\ prov = <<>>
    /\ calls = <<>>

\* a client with its configuration read, at a backend that holds its namespace
InitLogsWith(client) ==
    /\ conf = DeployedConf
    /\ inv = <<>>
    /\ cwl = client
    /\ groups = [g \in {ConfNamespace} |-> ConfRetentionDays]
    /\ streamUp = FALSE
    /\ stream = <<>>
    /\ last = NoCall
    /\ cursor = Nil
    /\ delivered = [i \in 1..MaxEvents |-> 0]
    /\ reset = FALSE
    /\ IdleProvisioning

InitLogs == InitLogsWith(InitializedClient)

\* the log driver creates the run's stream
CreateStream ==
    /\ ~streamUp
    /\ streamUp' = TRUE
    /\ UNCHANGED <<conf, inv, cwl, groups, stream, run, last, cursor, delivered, reset, pc, prov, calls>>

\* the log driver ships one more event
AppendEvent ==
    /\ streamUp
    /\ Len(stream) < MaxEvents
    /\ stream' = Append(stream, ShippedEvent(Len(stream) + 1))
    /\ UNCHANGED <<conf, inv, cwl, groups, streamUp, run, last, cursor, delivered, reset, pc, prov, calls>>

\* the run moves on to its next status
AdvanceStatus ==
    /\ \E i \in 1..(Len(Statuses) - 1) :
        /\ run.Status = Statuses[i]
        /\ run' = [run EXCEPT !.Status = Statuses[i + 1]]
    /\ UNCHANGED <<conf, inv, cwl, groups, streamUp, stream, last, cursor, delivered, reset, pc, prov, calls>>

\* the cursors a caller may hold: none, an empty one, or one the backend issued
CallerCursors == {Nil, Ptr(<<>>)} \cup {Ptr(Token(n)) : n \in 0..Len(stream)}

(* --------------------------- Spec: the orchestrator -------------------- *)
Init ==
    /\ InitLogs
    /\ run \in Runs

CallLogs ==
    /\ \E runID \in {RunID, "r0"}, lastSeen \in CallerCursors :
        last' \in OrchLogsOutcomes(runID, lastSeen)
    /\ UNCHANGED <<conf, inv, cwl, groups, streamUp, stream, run, cursor, delivered, reset, pc, prov, calls>>

CallLogsText ==
    /\ \E runID \in {RunID, "r0"} : last' \in OrchLogsTextOutcomes(runID)
    /\ UNCHANGED <<conf, inv, cwl, groups, streamUp, stream, run, cursor, delivered, reset, pc, prov, calls>>

Next == CreateStream \/ AppendEvent \/ AdvanceStatus \/ CallLogs \/ CallLogsText

Spec == Init /\ [][Next]_vars

(* ------------------------ SpecPoll: a polling caller ------------------- *)
\* the runs whose logs the caller polls for: older runs with no executable type or id set
PolledRuns ==
    {r \in Runs : r.Status = StatusQueued /\ r.ExecutableType = Nil /\ r.ExecutableID = Nil}

InitPoll ==
    /\ InitLogs
    /\ run \in PolledRuns

\* the events a returned text holds: those of the page the backend answered with
Received(call) == IF call.err = NoErr THEN {call.result.idx[i] : i \in DOMAIN call.result.idx} ELSE {}

\* the calls that hand no position back: those that end in an error or before the client is asked
Resets(call) == call.err # NoErr \/ call.lcLogs = 0

\* the caller passes the cursor of the previous call (nil at first) and keeps what comes back
Poll ==
    /\ last' \in OrchLogsOutcomes(RunID, cursor)
    /\ cursor' = last'.cursor
    /\ delivered' = [i \in DOMAIN delivered |->
                        IF i \in Received(last') THEN Min(delivered[i] + 1, 2) ELSE delivered[i]]
    /\ reset' = (reset \/ (Resets(last') /\ \E i \in DOMAIN delivered : delivered[i] > 0))
    /\ UNCHANGED <<conf, inv, cwl, groups, streamUp, stream, run, pc, prov, calls>>

NextPoll == CreateStream \/ AppendEvent \/ AdvanceStatus \/ Poll

SpecPoll == InitPoll /\ [][NextPoll]_vars

(* ---------------- SpecClient: one call of the client's Logs ------------ *)
Messages == {<<"a">>, <<"b">>, <<"c">>}
PageEvents == [Timestamp : 1..MaxTs, Message : Messages]
Pages == UNION {[1..n -> PageEvents] : n \in 0..MaxPageLen}
Tokens == {Token(1), Token(2)}

\* whatever GetLogEvents may answer: any error, or any page with any next token
Responses ==
    {Failure(e) : e \in TransientErrors \cup {RNF, InvalidParameter}} \cup
    {[NoOutput EXCEPT !.Events = ev, !.NextForwardToken = Ptr(t)] : ev \in Pages, t \in Tokens}

InitClient ==
    /\ InitLogs
    /\ run \in {r \in Runs : r.Status = StatusRunning /\ r.ExecutableType = Nil
                             /\ r.ExecutableID = Nil /\ r.Engine = Ptr(ECSEngine)}

ClientCallLogs ==
    /\ last.op = "none"
    /\ \E lastSeen \in {Nil, Ptr(<<>>), Ptr(Token(1))}, result \in Responses :
        last' = ClientLogs(StoredExecutables[ExecutableTypeDefinition, "d1"], run, lastSeen, result)
    /\ UNCHANGED <<conf, inv, cwl, groups, streamUp, stream, run, cursor, delivered, reset, pc, prov, calls>>

NextClient == ClientCallLogs

SpecClient == InitClient /\ [][NextClient]_vars

(* --------------------- SpecNs: namespace provisioning ------------------ *)
Provisioners == 1..NumProvisioners

\* the failure the backend may answer any provisioning request with, whatever its state
RequestFailures == {ServiceUnavailable}

RECURSIVE HasPrefix(_, _)
HasPrefix(s, prefix) ==
    IF Len(prefix) = 0 THEN TRUE
    ELSE IF Len(s) = 0 \/ s[1] # prefix[1] THEN FALSE
    ELSE HasPrefix(Tail(s), Tail(prefix))

\* DescribeLogGroups: the names of the groups that start with the prefix
DescribeLogGroups(prefix) == {g \in DOMAIN groups : HasPrefix(g, prefix)}

\* faulty variant: the scan never finds the namespace
namespaceExistsNever(logGroups) == FALSE

\* faulty variant: any listed group counts as the namespace
namespaceExistsAnyListed(logGroups) == Cardinality(logGroups) # 0

\* namespaceExists, from the groups the backend listed
namespaceExists(logGroups) ==
    IF Cardinality(logGroups) = 0 THEN FALSE
    ELSE \E g \in logGroups : g = cwl.logNamespace

\* the locals and request counts of a call of createNamespaceIfNotExists
NewCall == [nDescribe |-> 0, nCreate |-> 0, nPut |-> 0, listed |-> {}]

\* the call returns err: its record joins the caller's history
Return(p, counts, err) ==
    /\ calls' = [calls EXCEPT ![p] = Append(@, counts @@ [err |-> err])]
    /\ prov' = [prov EXCEPT ![p] = NewCall]
    /\ pc' = [pc EXCEPT ![p] = "idle"]

\* Initialize, up to its call of createNamespaceIfNotExists
Initialize(p) ==
    /\ pc[p] = "idle"
    /\ Len(calls[p]) < MaxCalls
    /\ LET read == InitializeConfig(conf, cwl)
       IN  /\ cwl' = read.cwl
           /\ IF read.err # NoErr
              THEN Return(p, prov[p], read.err)
              ELSE /\ pc' = [pc EXCEPT ![p] = "describe"]
                   /\ UNCHANGED <<prov, calls>>
    /\ UNCHANGED <<conf, inv, groups, streamUp, stream, run, last, cursor, delivered, reset>>

\* createNamespaceIfNotExists, up to the answer of DescribeLogGroups
Describe(p) ==
    /\ pc[p] = "describe"
    /\ LET counts == [prov[p] EXCEPT !.nDescribe = @ + 1]
           listed == DescribeLogGroups(cwl.logNamespace)
       IN  \/ \E e \in RequestFailures :
                /\ Return(p, counts,
                          Wrap(e, "problem checking if log namespace exists"))
                /\ UNCHANGED groups
           \/ IF namespaceExists(listed)
              THEN Return(p, [counts EXCEPT !.listed = listed], NoErr) /\ UNCHANGED groups
              ELSE /\ pc' = [pc EXCEPT ![p] = "create"]
                   /\ prov' = [prov EXCEPT ![p] = [counts EXCEPT !.listed = listed]]
                   /\ UNCHANGED <<groups, calls>>
    /\ UNCHANGED <<conf, inv, cwl, streamUp, stream, run, last, cursor, delivered, reset>>

\* createNamespace: whether an error of CreateLogGroup ends it
CreateFails(err) == err # NoSdkErr

\* createNamespace, up to the answer of CreateLogGroup
Create(p) ==
    /\ pc[p] = "create"
    /\ LET counts == [prov[p] EXCEPT !.nCreate = @ + 1]
           answers == RequestFailures \cup
                      (IF cwl.logNamespace \in DOMAIN groups THEN {AlreadyExists} ELSE {NoSdkErr})
       IN  \E e \in answers :
            /\ groups' = IF e = NoSdkErr
                         THEN [g \in DOMAIN groups \cup {cwl.logNamespace} |->
                                  IF g = cwl.logNamespace THEN 0 ELSE groups[g]]
                         ELSE groups
            /\ IF CreateFails(e)
               THEN Return(p, counts, Wrap(e, "problem creating log group"))
               ELSE /\ pc' = [pc EXCEPT ![p] = "put"]
                    /\ prov' = [prov EXCEPT ![p] = counts]
                    /\ UNCHANGED calls
    /\ UNCHANGED <<conf, inv, cwl, streamUp, stream, run, last, cursor, delivered, reset>>

\* createNamespace, from PutRetentionPolicy to its return
PutRetention(p) ==
    /\ pc[p] = "put"
    /\ LET counts == [prov[p] EXCEPT !.nPut = @ + 1]
           answers == RequestFailures \cup
                      (IF cwl.logNamespace \in DOMAIN groups THEN {NoSdkErr} ELSE {RNF})
       IN  \E e \in answers :
            /\ groups' = IF e = NoSdkErr
                         THEN [groups EXCEPT ![cwl.logNamespace] = cwl.logRetentionInDays]
                         ELSE groups
            /\ IF e # NoSdkErr
               THEN Return(p, counts, Wrap(e, "problem setting log group retention policy"))
               ELSE Return(p, counts, NoErr)
    /\ UNCHANGED <<conf, inv, cwl, streamUp, stream, run, last, cursor, delivered, reset>>

\* the other groups of the account: one whose name starts with the namespace's
OtherGroups == {<<"g", "2">>}

InitNs ==
    /\ conf = DeployedConf
    /\ inv = <<>>
    /\ cwl = NewClient(conf)
    /\ \E names \in SUBSET (OtherGroups \cup {ConfNamespace}) :
        groups = [g \in names |-> ConfRetentionDays]
    /\ streamUp = FALSE
    /\ stream = <<>>
    /\ run \in {r \in Runs : r.Status = StatusQueued /\ r.ExecutableType = Nil
                             /\ r.ExecutableID = Nil /\ r.Engine = Ptr(ECSEngine)}
    /\ last = NoCall
    /\ cursor = Nil
    /\ delivered = [i \in 1..MaxEvents |-> 0]
    /\ reset = FALSE
    /\ pc = [p \in Provisioners |-> "idle"]
    /\ prov = [p \in Provisioners |-> NewCall]
    /\ calls = [p \in Provisioners |-> <<>>]

NextNs ==
    \E p \in Provisioners : Initialize(p) \/ Describe(p) \/ Create(p) \/ PutRetention(p)

SpecNs == InitNs /\ [][NextNs]_vars

(* ------------- SpecInit: one client, from Initialize onwards ----------- *)
TheClient == 1

InitInit ==
    /\ conf \in Configs
    /\ inv = <<>>
    /\ cwl = NewClient(conf)
    /\ \E names \in SUBSET (OtherGroups \cup {ConfNamespace}) :
        groups = [g \in names |-> ConfRetentionDays]
    /\ streamUp = FALSE
    /\ stream = <<>>
    /\ run \in {r \in Runs : r.Status = StatusRunning /\ r.ExecutableType = Nil
                             /\ r.ExecutableID = Nil /\ r.Engine = Ptr(ECSEngine)}
    /\ last = NoCall
    /\ cursor = Nil
    /\ delivered = [i \in 1..MaxEvents |-> 0]
    /\ reset = FALSE
    /\ pc = [p \in {TheClient} |-> "idle"]
    /\ prov = [p \in {TheClient} |-> NewCall]
    /\ calls = [p \in {TheClient} |-> <<>>]

\* Logs on the client once a call of Initialize has returned
LogsAfterInitialize ==
    /\ pc[TheClient] = "idle"
    /\ Len(calls[TheClient]) > 0
    /\ cwl.logsClient
    /\ last' \in ClientLogsOutcomes(StoredExecutables[ExecutableTypeDefinition, "d1"], run, Nil)
    /\ UNCHANGED <<conf, inv, cwl, groups, streamUp, stream, run, cursor, delivered, reset, pc, prov, calls>>

NextInit ==
    \/ Initialize(TheClient)
    \/ Describe(TheClient)
    \/ Create(TheClient)
    \/ PutRetention(TheClient)
    \/ LogsAfterInitialize

SpecInit == InitInit /\ [][NextInit]_vars

(* ------- SpecConc: invocations on one client, for different runs ------- *)
ConcRunIDs == {"r1", "r2"}

\* the run the state manager holds for an id; each task has its own arn
ConcRun(id) ==
    [RunID |-> id, Status |-> StatusRunning, ExecutableType |-> Ptr(ExecutableTypeDefinition),
     ExecutableID |-> Ptr("d1"), DefinitionID |-> "d1", Engine |-> Ptr(ECSEngine),
     TaskArn |-> <<"t", "/", IF id = "r1" THEN "x" ELSE "y">>]

ConcExecutable == StoredExecutables[ExecutableTypeDefinition, "d1"]

\* the frame of an invocation that has not begun
NoFrame(id) ==
    [pc |-> "idle", op |-> "none", run |-> ConcRun(id), lastSeen |-> Nil, during |-> {},
     handle |-> <<>>, args |-> <<>>, result |-> NoOutput, text |-> <<>>, cursor |-> Nil,
     err |-> NoErr]

\* the invocations between their first and their last step
InFlight == {id \in DOMAIN inv : inv[id].pc \in {"sent", "answered"}}

\* faulty variant: Logs keeps the stream name it built in the client
LogsBuildKeepsHandle(executable, r, lastSeen) ==
    [cwl |-> [cwl EXCEPT !.logStreamPrefix = toStreamName(executable, r)],
     handle |-> toStreamName(executable, r),
     args |-> GetLogEventsInput(executable, r, lastSeen)]

\* Logs up to its request: the locals it fills, and the client's fields afterwards
LogsBuild(executable, r, lastSeen) ==
    [cwl |-> cwl,
     handle |-> toStreamName(executable, r),
     args |-> GetLogEventsInput(executable, r, lastSeen)]

\* what GetLogEvents may answer a request: a stream nobody writes is not found
ConcResponses(args) ==
    IF args.LogGroupName \notin DOMAIN groups
       \/ args.LogStreamName \notin {<<"p", "/", "c", "/", "x">>, <<"p", "/", "c", "/", "y">>}
    THEN {Failure(RNF)}
    ELSE {Failure(Throttling), Failure(RNF),
          [NoOutput EXCEPT !.NextForwardToken = Ptr(Token(1))],
          [NoOutput EXCEPT !.Events = <<[Timestamp |-> 2, Message |-> <<"b">>],
                                        [Timestamp |-> 1, Message |-> <<"a">>]>>,
                           !.NextForwardToken = Ptr(Token(2))]}

InitConc ==
    /\ conf = DeployedConf
    /\ cwl = InitializedClient
    /\ groups = [g \in {ConfNamespace} |-> ConfRetentionDays]
    /\ streamUp = TRUE
    /\ stream = <<>>
    /\ run = ConcRun("r1")
    /\ last = NoCall
    /\ cursor = Nil
    /\ delivered = [i \in 1..MaxEvents |-> 0]
    /\ reset = FALSE
    /\ IdleProvisioning
    /\ inv = [id \in ConcRunIDs |-> NoFrame(id)]

\* Logs, from its entry to the request it has built
BeginLogs(id) ==
    /\ inv[id].pc = "idle"
    /\ \E lastSeen \in {Nil, Ptr(Token(1))} :
        LET built == LogsBuild(ConcExecutable, inv[id].run, lastSeen)
        IN  /\ cwl' = built.cwl
            /\ inv' = [inv EXCEPT ![id] = [@ EXCEPT !.pc = "sent", !.op = "cwl.Logs",
                                                    !.lastSeen = lastSeen,
                                                    !.during = InFlight,
                                                    !.handle = built.handle,
                                                    !.args = <<built.args>>]]
    /\ UNCHANGED <<conf, groups, streamUp, stream, run, last, cursor, delivered, reset, pc, prov,
                   calls>>

\* Logs: GetLogEvents answers
AnswerLogs(id) ==
    /\ inv[id].pc = "sent"
    /\ \E result \in ConcResponses(inv[id].args[1]) :
        inv' = [inv EXCEPT ![id] = [@ EXCEPT !.pc = "answered", !.result = result]]
    /\ UNCHANGED <<conf, cwl, groups, streamUp, stream, run, last, cursor, delivered, reset, pc,
                   prov, calls>>

\* Logs, from the answer to its return
ReturnLogs(id) ==
    /\ inv[id].pc = "answered"
    /\ LET ret == ClientLogsReturn(inv[id].lastSeen, inv[id].result)
       IN  inv' = [inv EXCEPT ![id] = [@ EXCEPT !.pc = "done", !.text = ret.text,
                                                !.cursor = ret.cursor, !.err = ret.err]]
    /\ UNCHANGED <<conf, cwl, groups, streamUp, stream, run, last, cursor, delivered, reset, pc,
                   prov, calls>>

\* LogsText, whole
CallClientLogsText(id) ==
    /\ inv[id].pc = "idle"
    /\ LET ret == ClientLogsTextReturn(ConcExecutable, inv[id].run)
       IN  inv' = [inv EXCEPT ![id] = [@ EXCEPT !.pc = "done", !.op = "cwl.LogsText",
                                                !.during = InFlight, !.err = ret.err]]
    /\ UNCHANGED <<conf, cwl, groups, streamUp, stream, run, last, cursor, delivered, reset, pc,
                   prov, calls>>

NextConc ==
    \E id \in ConcRunIDs :
        BeginLogs(id) \/ AnswerLogs(id) \/ ReturnLogs(id) \/ CallClientLogsText(id)

SpecConc == InitConc /\ [][NextConc]_vars

(* -------------- SpecHandle: the stream name of one call of Logs -------- *)
StreamPrefixes == {<<"p">>, <<"p", "q">>, <<"p", "/", "q">>}
ContainerNames == {<<"c">>, <<"k", "c">>, <<>>}
TaskArns == {<<"a", ":", "t", "/", "x", "1">>, <<"t", "/", "x">>, <<"a", "/", "t", "/", "x">>,
             <<"x", "1">>, <<"t", "/">>, <<>>}

InitHandle ==
    /\ \E prefix \in StreamPrefixes :
        InitLogsWith([InitializedClient EXCEPT !.logStreamPrefix = prefix])
    /\ \E r \in Runs, arn \in TaskArns :
        /\ r.Status = StatusRunning /\ r.ExecutableType = Nil /\ r.ExecutableID = Nil
        /\ r.Engine = Ptr(ECSEngine)
        /\ run = [r EXCEPT !.TaskArn = arn]

HandleCallLogs ==
    /\ last.op = "none"
    /\ \E container \in ContainerNames, lastSeen \in {Nil, Ptr(Token(1))},
          result \in {Failure(RNF), [NoOutput EXCEPT !.NextForwardToken = Ptr(Token(1))]} :
        last' = ClientLogs([ContainerName |-> container], run, lastSeen, result)
    /\ UNCHANGED <<conf, inv, cwl, groups, streamUp, stream, run, cursor, delivered, reset, pc, prov, calls>>

NextHandle == HandleCallLogs

SpecHandle == InitHandle /\ [][NextHandle]_vars

(* ------------------------------- claims -------------------------------- *)
Gated(call) ==
    /\ call.op \in {"Logs", "LogsText"}
    /\ call.run # <<>>
    /\ call.run[1].Status \notin {"RUNNING", "STOPPED"}

Served(call) ==
    /\ call.op \in {"Logs", "LogsText"}
    /\ call.run # <<>>
    /\ call.run[1].Status \in {"RUNNING", "STOPPED"}

\* C1: for a run that is neither running nor stopped, Logs returns ("", nil, no error),
\* LogsText returns no error, and neither asks anything of the log client or the backend.
C1_StatusGate ==
    Gated(last) =>
        /\ last.text = <<>>
        /\ last.cursor = Nil
        /\ last.err.class = "nil"
        /\ last.lcLogs = 0
        /\ last.lcLogsText = 0
        /\ last.req = <<>>

\* a pending run whose stream already holds events was asked for with a cursor
C1_Witness ==
    /\ Gated(last)
    /\ last.op = "Logs"
    /\ last.run[1].Status = "PENDING"
    /\ last.lastSeen # Nil
    /\ Len(stream) > 0

\* the position a cursor stands for
CursorPos(c) == IF c = Nil \/ ~IsToken(Deref(c)) THEN 0 ELSE TokenPos(Deref(c))

\* C2 as stated: whatever the calls in between ended in, every event up to the caller's
\* cursor has been received once, and no event twice.
C2_ExactlyOnceAlways ==
    \A i \in DOMAIN delivered :
        /\ delivered[i] <= 1
        /\ (i <= CursorPos(cursor) => delivered[i] >= 1)

\* C2 amended: no event up to the caller's cursor is ever skipped, and every event has been
\* received exactly once as long as no call made after the first received event ended in
\* an error or in the not-yet-available outcome.
C2_ExactlyOnceUntilReset ==
    /\ \A i \in DOMAIN delivered : i <= CursorPos(cursor) => delivered[i] >= 1
    /\ ~reset => \A i \in DOMAIN delivered :
                    delivered[i] = IF i <= CursorPos(cursor) THEN 1 ELSE 0

\* the caller has every event of a full stream after a throttled call and an empty page
C2_Witness ==
    /\ ~reset
    /\ Len(stream) = MaxEvents
    /\ CursorPos(cursor) = MaxEvents
    /\ last.result.err = NoSdkErr
    /\ last.result.Events = <<>>
    /\ \A i \in DOMAIN delivered : delivered[i] = 1

\* C3: on a throttling error the client's Logs returns empty text, the cursor it was given
\* (nil for nil) and no error.
C3_ThrottleKeepsCursor ==
    (last.op = "cwl.Logs" /\ last.result.err.code = "ThrottlingException") =>
        /\ last.text = <<>>
        /\ last.cursor = last.lastSeen
        /\ last.err.class = "nil"

C3_Witness ==
    /\ last.op = "cwl.Logs"
    /\ last.result.err.code = "ThrottlingException"
    /\ last.lastSeen = <<<<"f", 1>>>>

LookupFailed(call) ==
    /\ call.lookup # <<>>
    /\ <<call.lookup[1], call.lookup[2]>> \notin DOMAIN StoredExecutables

\* C6: for a running or stopped run of the ECS engine whose executable lookup fails, Logs
\* and LogsText return the lookup's error and do not call the log client.
C6_LookupErrorPropagates ==
    (Served(last) /\ LookupFailed(last) /\ last.run[1].Engine = <<"ecs">>) =>
        /\ last.err.class = "executable not found"
        /\ last.lcLogs = 0
        /\ last.lcLogsText = 0

\* C7: on a page without events the client's Logs returns empty text, the next token of
\* the backend's answer, and no error.
C7_EmptyPage ==
    (last.op = "cwl.Logs" /\ last.result.err.code = "nil" /\ Len(last.result.Events) = 0) =>
        /\ last.text = <<>>
        /\ last.cursor = last.result.NextForwardToken
        /\ last.err.class = "nil"

\* an empty page whose next token is not the cursor that was passed
C7_Witness ==
    /\ last.op = "cwl.Logs"
    /\ last.result.err.code = "nil"
    /\ Len(last.result.Events) = 0
    /\ last.lastSeen # Nil
    /\ last.result.NextForwardToken # last.lastSeen

\* C8: on a page with events the text is the page's messages, each once, in nondecreasing
\* order of timestamp, joined with newlines; the cursor is the backend's next token; no error.
C8_SortedJoin ==
    (last.op = "cwl.Logs" /\ last.result.err.code = "nil" /\ Len(last.result.Events) > 0) =>
        LET ev == last.result.Events
            n == Len(ev)
        IN  /\ \E f \in Perms(n) :
                /\ \A i \in 1..(n - 1) : ev[f[i]].Timestamp <= ev[f[i + 1]].Timestamp
                /\ last.text = Join([i \in 1..n |-> ev[f[i]].Message], <<"\n">>)
            /\ last.cursor = last.result.NextForwardToken
            /\ last.err.class = "nil"

\* timestamps [3,1,2] with messages [c,a,b] came back as "a\nb\nc"
C8_Witness ==
    /\ last.op = "cwl.Logs"
    /\ last.result.err.code = "nil"
    /\ last.result.Events = <<[Timestamp |-> 3, Message |-> <<"c">>],
                              [Timestamp |-> 1, Message |-> <<"a">>],
                              [Timestamp |-> 2, Message |-> <<"b">>]>>
    /\ last.text = <<"a", "\n", "b", "\n", "c">>

\* C9: when the backend answers "resource not found", Logs returns empty text and an error
\* classified MissingResource, and the orchestrator hands that on unchanged.
C9_MissingResource ==
    (last.op = "Logs" /\ last.lcLogs = 1 /\ last.result.err.code = "ResourceNotFoundException") =>
        /\ last.err = [class |-> "MissingResource", cause |-> "ResourceNotFoundException"]
        /\ last.text = <<>>

C9_Witness ==
    /\ last.op = "Logs"
    /\ last.lcLogs = 1
    /\ last.result.err.code = "ResourceNotFoundException"

\* C10: for a running or stopped run, LogsText of the orchestrator calls the client's
\* LogsText, which writes nothing and fails with "does not support LogsText", and returns
\* that error.
C10_LogsTextUnsupported ==
    (Served(last) /\ last.op = "LogsText") =>
        /\ last.lcLogsText = 1
        /\ last.wrote = <<>>
        /\ last.err.class = "ECSCloudWatchLogsClient does not support LogsText method."

C10_Witness ==
    /\ Served(last)
    /\ last.op = "LogsText"
    /\ last.run[1].Status = "STOPPED"

\* C4: however the steps of concurrent provisioners interleave, no call of
\* createNamespaceIfNotExists returns an error caused by the namespace already existing.
C4_NoAlreadyExistsError ==
    \A p \in DOMAIN calls : \A k \in DOMAIN calls[p] :
        calls[p][k].err.cause # "ResourceAlreadyExistsException"

Alone(p) == \A q \in DOMAIN calls : q # p => (calls[q] = <<>> /\ pc[q] = "idle")

\* C5 as stated: two calls in sequence, nobody else at the backend: at most one create
\* request in total, and the second call succeeds without a create or set-retention request.
C5_SecondCallNoOp ==
    \A p \in DOMAIN calls :
        (Alone(p) /\ Len(calls[p]) >= 2) =>
            /\ calls[p][1].nCreate + calls[p][2].nCreate <= 1
            /\ calls[p][2].nCreate = 0
            /\ calls[p][2].nPut = 0
            /\ calls[p][2].err.class = "nil"

\* C5 amended: when the first of the two calls returned success, at most one create request
\* is issued in total, the second call issues no create and no set-retention request, and
\* it returns success unless its own existence check fails.
C5_SecondCallNoOpAfterSuccess ==
    \A p \in DOMAIN calls :
        (Alone(p) /\ Len(calls[p]) >= 2 /\ calls[p][1].err.class = "nil") =>
            /\ calls[p][1].nCreate + calls[p][2].nCreate <= 1
            /\ calls[p][2].nCreate = 0
            /\ calls[p][2].nPut = 0
            /\ calls[p][2].err.class \in {"nil", "problem checking if log namespace exists"}

\* a first call that created the namespace, then a second that found it
C5_Witness ==
    \E p \in DOMAIN calls :
        /\ Alone(p)
        /\ Len(calls[p]) >= 2
        /\ calls[p][1].err.class = "nil"
        /\ calls[p][1].nCreate = 1
        /\ calls[p][1].nPut = 1
        /\ calls[p][2].err.class = "nil"
        /\ calls[p][2].nDescribe = 1

\* C11 as stated: the request starts from the head with no token when no cursor is passed,
\* and carries every cursor that is passed, as it is, as its token.
C11_RequestCarriesCursor ==
    (last.op = "Logs" /\ last.lcLogs = 1) =>
        /\ last.req[1].StartFromHead
        /\ last.req[1].NextToken = last.lastSeen

\* C11 amended: the request carries no token when the caller passes no cursor or an empty
\* one, and carries every non-empty cursor the caller passes, as it is, as its token; the
\* orchestrator hands the caller's cursor to the client as it is.
C11_RequestCarriesNonEmptyCursor ==
    (last.op = "Logs" /\ last.lcLogs = 1) =>
        /\ last.req[1].StartFromHead
        /\ last.req[1].NextToken =
              IF last.lastSeen = Nil \/ last.lastSeen = <<<<>>>> THEN <<>> ELSE last.lastSeen

\* a call with a token the backend issued, and the request that carried it
C11_Witness ==
    /\ last.op = "Logs"
    /\ last.lcLogs = 1
    /\ last.lastSeen = <<<<"f", 1>>>>
    /\ last.req[1].NextToken = <<<<"f", 1>>>>

\* C12: for a running or stopped run the descriptor is looked up by the run's executable
\* type, or "definition" when unset, and by its executable id, or its definition id when
\* unset, each on its own; what is found under that key is what the client is handed.
C12_LookupDefaults ==
    Served(last) =>
        /\ last.lookup[1] = IF run.ExecutableType = <<>> THEN "task_definition"
                            ELSE run.ExecutableType[1]
        /\ last.lookup[2] = IF run.ExecutableID = <<>> THEN run.DefinitionID
                            ELSE run.ExecutableID[1]
        /\ (last.executable # <<>> /\ ~LookupFailed(last)) =>
              last.executable[1] = StoredExecutables[last.lookup[1], last.lookup[2]]

\* a run with a type and no id: the id alone is defaulted
C12_Witness ==
    /\ Served(last)
    /\ run.ExecutableType = <<"template">>
    /\ run.ExecutableID = <<>>
    /\ last.lookup = <<"template", "d1">>
    /\ last.executable = <<[ContainerName |-> <<"k">>]>>

\* seg is what follows the last "/" of handle, or all of handle when it holds no "/"
IsLastSegmentOf(seg, handle) ==
    \E k \in 0..Len(handle) :
        /\ seg = SubSeq(handle, k + 1, Len(handle))
        /\ \A i \in (k + 1)..Len(handle) : handle[i] # "/"
        /\ k = 0 \/ handle[k] = "/"

\* C13: the stream the client fetches from is named "<prefix>/<container name>/<last segment
\* of the task handle>", the whole handle being its last segment when it holds no "/".
C13_StreamName ==
    last.op = "cwl.Logs" =>
        \E k \in 0..Len(last.run[1].TaskArn) :
            LET seg == SubSeq(last.run[1].TaskArn, k + 1, Len(last.run[1].TaskArn))
            IN  /\ IsLastSegmentOf(seg, last.run[1].TaskArn)
                /\ last.req[1].LogStreamName =
                      cwl.logStreamPrefix \o <<"/">> \o last.executable[1].ContainerName
                                          \o <<"/">> \o seg

\* prefix "p", container "c" and a task handle "a:t/x1" gave "p/c/x1"
C13_Witness ==
    /\ last.op = "cwl.Logs"
    /\ cwl.logStreamPrefix = <<"p">>
    /\ last.executable[1].ContainerName = <<"c">>
    /\ last.run[1].TaskArn = <<"a", ":", "t", "/", "x", "1">>
    /\ last.req[1].LogStreamName = <<"p", "/", "c", "/", "x", "1">>

\* C17: for a running or stopped run of another engine than ECS whose executable lookup
\* fails, Logs and LogsText call the log client once, with the run and the descriptor the
\* lookup handed back, and return what the client returns, not the lookup's error.
C17_LookupErrorTolerated ==
    (Served(last) /\ LookupFailed(last) /\ last.run[1].Engine # <<"ecs">>) =>
        /\ last.lcLogs + last.lcLogsText = 1
        /\ last.lcLogs = IF last.op = "Logs" THEN 1 ELSE 0
        /\ last.executable = <<[ContainerName |-> <<>>]>>
        /\ last.run[1].RunID = run.RunID /\ last.run[1].TaskArn = run.TaskArn
        /\ last.err.class # "executable not found"
        /\ last.op = "Logs" =>
              /\ Len(last.req) = 1
              /\ last.err.class =
                    IF last.result.err.code = "nil" \/ last.result.err.code = "ThrottlingException"
                    THEN "nil"
                    ELSE IF last.result.err.code = "ResourceNotFoundException"
                    THEN "MissingResource" ELSE "problem getting logs"
        /\ last.op = "LogsText" =>
              last.err.class = "ECSCloudWatchLogsClient does not support LogsText method."

\* Logs for an EKS run whose executable is not stored: the client was asked and answered
C17_Witness ==
    /\ Served(last)
    /\ LookupFailed(last)
    /\ last.run[1].Engine = <<"eks">>
    /\ last.op = "Logs"
    /\ last.lcLogs = 1
    /\ last.err.class = "MissingResource"

RegionAbsent == conf.awslogsRegion = <<>> /\ conf.defaultRegion = <<>>
NamespaceAbsent == conf.namespace = <<>> /\ conf.awslogsGroup \in {<<>>, <<<<>>>>}
StreamPrefixAbsent == conf.streamPrefix = <<>>
NoRequests(c) == c.nDescribe = 0 /\ c.nCreate = 0 /\ c.nPut = 0

\* C15: with the region, the namespace or the stream prefix absent, Initialize returns at
\* once the configuration error that names the first absent one, and sends the backend
\* nothing; with all three present it provisions the namespace once, with the configured
\* retention days, or 30 when those are unset or zero.
C15_InitializeValidates ==
    /\ (RegionAbsent \/ NamespaceAbsent \/ StreamPrefixAbsent) =>
          /\ pc[1] = "idle"
          /\ NoRequests(prov[1])
    /\ \A k \in DOMAIN calls[1] :
        LET c == calls[1][k]
        IN  IF RegionAbsent
            THEN NoRequests(c) /\ c.err.class = "ECSCloudWatchLogsClient needs one of [ecs.log.driver.options.awslogs-region] or [aws_default_region] set in config"
            ELSE IF NamespaceAbsent
            THEN NoRequests(c) /\ c.err.class = "ECSCloudWatchLogsClient needs one of [ecs.log.driver.options.awslogs-group] or [ecs.log.namespace] set in config"
            ELSE IF StreamPrefixAbsent
            THEN NoRequests(c) /\ c.err.class = "ECSCloudWatchLogsClient needs [ecs.log.driver.options.awslogs-stream-prefix] set in config"
            ELSE /\ c.nDescribe = 1
                 /\ c.err.class \in {"nil", "problem checking if log namespace exists",
                                     "problem creating log group",
                                     "problem setting log group retention policy"}
                 /\ (c.nPut = 1 /\ c.err.class = "nil") =>
                       groups[cwl.logNamespace] =
                           IF conf.retentionDays = 0 THEN 30 ELSE conf.retentionDays

\* a configuration without retention days: the namespace was made with 30
C15_Witness ==
    /\ conf.retentionDays = 0
    /\ Len(calls[1]) = 1
    /\ calls[1][1].err.class = "nil"
    /\ calls[1][1].nDescribe = 1 /\ calls[1][1].nCreate = 1 /\ calls[1][1].nPut = 1
    /\ groups[cwl.logNamespace] = 30

ProvisioningFailed(c) ==
    c.err.class \in {"problem checking if log namespace exists", "problem creating log group",
                     "problem setting log group retention policy"}

\* C16: when every call of Initialize on the client has failed in provisioning the
\* namespace, no call of Logs on that client has sent the backend a request or returned text.
C16_FailedClientUnusable ==
    (Len(calls[1]) > 0 /\ \A k \in DOMAIN calls[1] : ProvisioningFailed(calls[1][k])) =>
        /\ last.req = <<>>
        /\ last.text = <<>>

Finished(c) == c.err.class # "problem checking if log namespace exists"

\* C18 as stated: a call that finds the namespace's name among the listed groups sends no
\* create and no set-retention request; a call that does not sends one of each.
C18_ExactMatchOrCreateAndPut ==
    \A p \in DOMAIN calls : \A k \in DOMAIN calls[p] :
        LET c == calls[p][k]
        IN  (c.nDescribe = 1 /\ Finished(c)) =>
                IF cwl.logNamespace \in c.listed
                THEN c.nCreate = 0 /\ c.nPut = 0
                ELSE c.nCreate = 1 /\ c.nPut = 1

\* C18 amended: a call that finds the namespace's name among the listed groups sends no
\* create and no set-retention request; a call that does not (nothing listed, or only
\* groups whose names go on after the namespace's) sends a create request, and after it a
\* set-retention request unless the create request failed.
C18_ExactMatchOrCreateThenPut ==
    /\ \A p \in DOMAIN calls : \A k \in DOMAIN calls[p] :
        LET c == calls[p][k]
        IN  (c.nDescribe = 1 /\ Finished(c)) =>
                IF cwl.logNamespace \in c.listed
                THEN c.nCreate = 0 /\ c.nPut = 0 /\ c.err.class = "nil"
                ELSE /\ c.nCreate = 1
                     /\ c.nPut = IF c.err.class = "problem creating log group" THEN 0 ELSE 1
    /\ \A p \in DOMAIN pc :
        /\ pc[p] = "create" => (cwl.logNamespace \notin prov[p].listed /\ prov[p].nCreate = 0)
        /\ pc[p] = "put" => (prov[p].nCreate = 1 /\ prov[p].nPut = 0)

\* only a group whose name goes on after the namespace's was listed: created, retention set
C18_Witness ==
    \E p \in DOMAIN calls : \E k \in DOMAIN calls[p] :
        /\ calls[p][k].listed = {<<"g", "2">>}
        /\ calls[p][k].nCreate = 1
        /\ calls[p][k].nPut = 1
        /\ calls[p][k].err.class = "nil"

\* the backend had no such namespace when p's calls began: a create request of p's made it
CreatedBy(p) ==
    \E k \in DOMAIN calls[p] :
        calls[p][k].nCreate = 1 /\ calls[p][k].err.class # "problem creating log group"

\* C19: in a sequence of calls by one provisioner on a backend that began without the
\* namespace, whenever the most recent call returned success the namespace exists and
\* carries the configured retention.
C19_SuccessMeansRetention ==
    \A p \in DOMAIN calls :
        (Alone(p) /\ pc[p] = "idle" /\ Len(calls[p]) > 0 /\ CreatedBy(p)
         /\ calls[p][Len(calls[p])].err.class = "nil") =>
            /\ cwl.logNamespace \in DOMAIN groups
            /\ groups[cwl.logNamespace] = cwl.logRetentionInDays

\* C14: no invocation of Logs or LogsText changes the client's fields after Initialize,
\* and every invocation, whatever ran beside it for another run, sends the request and
\* returns the text, cursor and error of the same call made alone with the same answer.
C14_NoInterference ==
    /\ cwl = InitializedClient
    /\ \A id \in DOMAIN inv :
        LET f == inv[id]
            alone == ClientLogs(ConcExecutable, f.run, f.lastSeen, f.result)
        IN  /\ (f.op = "cwl.Logs" /\ f.pc \in {"sent", "answered", "done"}) =>
                   f.args = alone.req
            /\ (f.op = "cwl.Logs" /\ f.pc = "done") =>
                   /\ f.text = alone.text
                   /\ f.cursor = alone.cursor
                   /\ f.err = alone.err
            /\ (f.op = "cwl.LogsText" /\ f.pc = "done") =>
                   f.err = ClientLogsTextReturn(ConcExecutable, f.run).err

\* both invocations returned text, and the second began while the first was in flight
C14_Witness ==
    /\ inv # <<>>
    /\ inv["r1"].pc = "done" /\ inv["r1"].text # <<>>
    /\ inv["r2"].pc = "done" /\ inv["r2"].text # <<>>
    /\ inv["r2"].during = {"r1"}
    /\ inv["r1"].lastSeen # inv["r2"].lastSeen
====
